---- MODULE Spec2Model ----
(***************************************************************************)
(* The benchmark sweep of s3-speed-comparison (src/unnamed/part_000):      *)
(* run() creates a bucket, calls measure() once per scenario and finally   *)
(* empties and deletes the bucket.  The program is single threaded; every  *)
(* `await` is a suspension point.  A state of the model is the program     *)
(* between two steps; the set inflight holds the storage and transport     *)
(* calls that have been issued and have not yet settled.                   *)
(*                                                                         *)
(* The S3 endpoint and the HTTP client are the environment: objects and    *)
(* uploads are the contents of the bucket, lat is the time each kind of    *)
(* call takes (drawn once per sweep), and any call in flight may reject.   *)
(***************************************************************************)
EXTENDS Integers, Sequences, FiniteSets, TLC

(* ------------------------------ bounds --------------------------------- *)
\* no iteration is started once a bucket holds this many samples
MaxSamples == 4
\* keys one ListObjectsV2 response carries at most (1000 on a real endpoint)
PageSize == 2
\* resolution of the modelled wall clock, in milliseconds
TickMs == 500
\* delete batches of one cleanup pass the model follows
MaxPasses == 4
\* process.hrtime() readings the key probe draws: seconds and nanoseconds
MaxSec == 11
MaxNanos == 10
\* keys the key probe builds
MaxKeysMade == 2
\* samples of one bucket in the store the Reporter probe reads
MaxReportLen == 2
\* whole part of the numbers the size probe writes
MaxWhole == 12

(* ------------------------- program constants --------------------------- *)
MinSamples == 3
MaxKeys == 2147483647
MicroBudgetMs == 1000
DefaultBudgetMs == 2000
LargeBudgetMs == 10000
KiB == 1024

(* --------------------------- size strings ------------------------------ *)
\* A size string is the sequence of its characters.
S512k == <<"5", "1", "2", "k">>
S5m == <<"5", "m">>
S10m == <<"1", "0", "m">>
S25m == <<"2", "5", "m">>
S1g == <<"1", "g">>
S500m == <<"5", "0", "0", "m">>
NoStr == <<>>

Digit == [c \in {"0", "1", "2", "3", "4", "5", "6", "7", "8", "9"} |->
            CASE c = "0" -> 0 [] c = "1" -> 1 [] c = "2" -> 2 [] c = "3" -> 3
              [] c = "4" -> 4 [] c = "5" -> 5 [] c = "6" -> 6 [] c = "7" -> 7
              [] c = "8" -> 8 [] c = "9" -> 9]

IsDigit(c) == c \in DOMAIN Digit

\* number of leading decimal digits of s from position i on
RECURSIVE DigitRun(_, _)
DigitRun(s, i) ==
  IF i <= Len(s) /\ IsDigit(s[i]) THEN 1 + DigitRun(s, i + 1) ELSE 0

\* value of the decimal digits s[i..j]
RECURSIVE DigitsValue(_, _, _)
DigitsValue(s, i, j) ==
  IF j < i THEN 0 ELSE DigitsValue(s, i, j - 1) * 10 + Digit[s[j]]

RECURSIVE Pow(_, _)
Pow(b, e) == IF e = 0 THEN 1 ELSE b * Pow(b, e - 1)

\* parseFloat on an unsigned decimal prefix: the longest prefix of the form
\* digits [ "." digits ] is read and the rest of the string is ignored.  The
\* result is the fraction num/den, or nan when no such prefix exists.
parseFloat(s) ==
  LET n == DigitRun(s, 1)
      f == IF n + 1 <= Len(s) /\ s[n + 1] = "." THEN DigitRun(s, n + 2) ELSE 0
  IN  IF n = 0 /\ f = 0
      THEN [nan |-> TRUE, num |-> 0, den |-> 1]
      ELSE [nan |-> FALSE,
            num |-> DigitsValue(s, 1, n) * Pow(10, f) + DigitsValue(s, n + 2, n + 1 + f),
            den |-> Pow(10, f)]

endsWith(s, c) == Len(s) > 0 /\ s[Len(s)] = c

\* (mutant) a string with no k, m or g at its end is a count of bytes
sizeToBytes_NoThrow(size) ==
  LET p == parseFloat(size)
      mult == IF endsWith(size, "k") THEN KiB
              ELSE IF endsWith(size, "m") THEN KiB * KiB
              ELSE IF endsWith(size, "g") THEN KiB * KiB * KiB
              ELSE 1
  IN  [throws |-> mult = 0, nan |-> p.nan, num |-> p.num * mult, den |-> p.den]

\* sizeToBytes: the numeric prefix times 1024^n by the last character; any
\* other last character throws.  The product is kept as a fraction.
sizeToBytes(size) ==
  LET p == parseFloat(size)
      mult == IF endsWith(size, "k") THEN KiB
              ELSE IF endsWith(size, "m") THEN KiB * KiB
              ELSE IF endsWith(size, "g") THEN KiB * KiB * KiB
              ELSE 0
  IN  [throws |-> mult = 0, nan |-> p.nan, num |-> p.num * mult, den |-> p.den]

\* the byte count of a size string whose product is a whole number
Bytes(size) == sizeToBytes(size).num \div sizeToBytes(size).den

\* getFileOfSize: a buffer of sizeBytes bytes of unspecified content; only its
\* length is observable
getFileOfSize(sizeBytes) == sizeBytes

(* ----------------------------- scenarios ------------------------------- *)
\* A measurement name or key prefix built by template interpolation is the
\* triple of its fixed text and the interpolated size and chunk strings.
Name(text, size, chunk) == <<text, size, chunk>>

Scenario(kind, name, size, chunk, maxTimeMs) ==
  [kind |-> kind, name |-> name, size |-> size, chunk |-> chunk,
   maxTimeMs |-> maxTimeMs]

\* the size lists of the sweep, shortened
TraditionalSizes == <<S512k>>
MultipartSmallSizes == <<S512k, S5m, S10m>>
MultipartSmallChunks == <<S5m, S25m>>
MultipartLargeSizes == <<S1g>>
MultipartLargeChunks == <<S500m>>

measureTraditionalUploadCases(sizes) ==
  [i \in 1..Len(sizes) |->
     Scenario("traditional", Name("traditional-upload", sizes[i], NoStr),
              sizes[i], NoStr, DefaultBudgetMs)]

measureMultipartUploadCases(sizes, chunks) ==
  [i \in 1..(Len(sizes) * Len(chunks)) |->
     LET size == sizes[((i - 1) \div Len(chunks)) + 1]
         chunk == chunks[((i - 1) % Len(chunks)) + 1]
     IN  Scenario("multipart", Name("upload-multipart-total", size, chunk),
                  size, chunk,
                  IF Bytes(size) >= Bytes(S1g) THEN LargeBudgetMs
                  ELSE DefaultBudgetMs)]

\* the scenarios of run(), in the order run() measures them
Registry ==
  <<Scenario("presign", Name("get-traditional-presigned-url", NoStr, NoStr),
             NoStr, NoStr, MicroBudgetMs),
    Scenario("initiate", Name("initiate-multipart-only", NoStr, NoStr),
             NoStr, NoStr, MicroBudgetMs),
    Scenario("partPresign", Name("get-multipart-presigned-url-only", NoStr, NoStr),
             NoStr, NoStr, MicroBudgetMs)>>
  \o measureTraditionalUploadCases(TraditionalSizes)
  \o measureMultipartUploadCases(MultipartSmallSizes, MultipartSmallChunks)
  \o measureMultipartUploadCases(MultipartLargeSizes, MultipartLargeChunks)

\* (mutant) the part-upload bucket is named by the size alone
uploadMeasureOf_NoChunk(s) == Name("upload-multipart-upload", s.size, NoStr)

uploadMeasureOf(s) == Name("upload-multipart-upload", s.size, s.chunk)

\* (mutant) the finalize bucket is given the name of the part-upload bucket
completeMeasureOf_Upload(s) == Name("upload-multipart-upload", s.size, s.chunk)

completeMeasureOf(s) == Name("upload-multipart-complete", s.size, s.chunk)

\* the key prefix a scenario's action passes to getKey
PrefixOf(s) ==
  CASE s.kind = "presign" -> Name("traditional-presigned-url-only", NoStr, NoStr)
    [] s.kind = "initiate" -> Name("initiate-multipart-only", NoStr, NoStr)
    [] s.kind = "partPresign" -> Name("multipart-presigned-url-only", NoStr, NoStr)
    [] s.kind = "traditional" -> Name("traditional-upload", s.size, NoStr)
    [] s.kind = "multipart" -> Name("multipart-upload", s.size, s.chunk)

(* ------------------------------- state --------------------------------- *)
VARIABLES
  scenarios,       \* the scenarios run() measures, in order
  lat,             \* environment: milliseconds each kind of awaited call takes
  sc,              \* number of measure() calls entered so far
  pc,              \* where the program is suspended
  inflight,        \* storage and transport calls issued and not yet settled
  failed,          \* an awaited call has rejected or a step has thrown
  now,             \* Date.now()
  hr,              \* process.hrtime(): <<seconds, nanoseconds>>
  measures,        \* const measures: Record<string, number[]>
  artifact,        \* contents of results.json; NoFile until first written
  overallStart, res, start,                 \* locals of measure
  mpStart, remainingBytes, chunkSize,       \* locals of the multipart fn
  UploadId, Key, eTags, partNumber, lastPart,
  Objects, cleanupFor,                      \* local of cleanup, and its caller
  bucket,          \* endpoint: "none", "created" or "deleted"
  objects,         \* endpoint: the objects of the bucket
  uploads,         \* endpoint: the multipart uploads in progress
  nextUploadId,    \* endpoint: the next upload id it hands out
  calls,           \* history: part uploads and finalize of the current iteration
  printed,         \* history: summaries printed for the current scenario
  listed,          \* history: keys listed during the current cleanup pass
  atCleanupStart,  \* history: keys in the bucket when the pass started
  enteredAt,       \* history: Date.now() when the current measure() was entered
  endAt,           \* history: Date.now() at the end of each of its iterations
  bucketOps,       \* history: the bucket-level calls run() has issued
  passes,          \* history: delete batches sent by the current cleanup pass
  sticky,          \* environment: DeleteObjects answers and removes nothing
  made,            \* probe: the keys getKey has built, with the clock readings
  sized,           \* probe: a size string and what sizeToBytes made of it
  report           \* probe: a results.json and what the Reporter made of it

vars ==
  <<scenarios, lat, sc, pc, inflight, failed, now, hr, measures, artifact,
    overallStart, res, start, mpStart, remainingBytes, chunkSize, UploadId,
    Key, eTags, partNumber, lastPart, Objects, cleanupFor, bucket, objects,
    uploads, nextUploadId, calls, printed, listed, atCleanupStart, enteredAt,
    endAt, bucketOps, passes, sticky, made, sized, report>>

measureLocals == <<overallStart, res, start>>
fnLocals ==
  <<mpStart, remainingBytes, chunkSize, UploadId, Key, eTags, partNumber, lastPart>>
cleanupLocals == <<Objects, cleanupFor, listed, atCleanupStart>>
endpoint == <<bucket, objects, uploads, nextUploadId>>
env == <<scenarios, lat, sticky>>
timing == <<enteredAt, endAt>>
history == <<bucketOps, passes>>
probes == <<made, sized, report>>

(* ----------------------------- environment ----------------------------- *)
\* the awaited calls whose duration a sample or a budget can include
MeasuredOps == {"setup", "presign", "initiate", "put", "complete"}

Latency(kind) == IF kind \in DOMAIN lat THEN lat[kind] ELSE TickMs

NanosPerSec == 1000000000

\* process.hrtime() after one more reading
HrAdvance(h) ==
  IF h[2] + 1 >= NanosPerSec THEN <<h[1] + 1, 0>> ELSE <<h[1], h[2] + 1>>

DigitChar == <<"0", "1", "2", "3", "4", "5", "6", "7", "8", "9">>

\* the decimal text of a natural number, as template interpolation prints it
RECURSIVE Decimal(_)
Decimal(n) ==
  IF n < 10 THEN <<DigitChar[n + 1]>>
  ELSE Decimal(n \div 10) \o <<DigitChar[(n % 10) + 1]>>

\* getKey: `${base}/${process.hrtime()[0]}${process.hrtime()[1]}`; t0 and t1
\* are the two readings of the clock
getKey(base, t0, t1) == [base |-> base, suffix |-> Decimal(t0[1]) \o Decimal(t1[2])]

NoFile == [exists |-> FALSE, text |-> {}]
NoRes == [kind |-> "none"]
NoKey == [base |-> Name("", NoStr, NoStr), suffix |-> NoStr]

(* ------------------------------ helpers -------------------------------- *)
\* measures[name] = v
Put(m, name, v) ==
  [n \in (DOMAIN m) \cup {name} |-> IF n = name THEN v ELSE m[n]]

\* Array.prototype.push
push(arr, v) == Append(arr, v)

\* (mutant) only the current scenario's array is written
JSONstringify_CurrentOnly(m) ==
  [exists |-> TRUE, text |-> {<<scenarios[sc].name, m[scenarios[sc].name]>>}]

\* JSON.stringify(measures): one member per key, holding the array's numbers
JSONstringify(m) ==
  [exists |-> TRUE, text |-> {<<n, m[n]>> : n \in DOMAIN m}]

\* JSON.parse of an artifact's text
JSONparse(a) ==
  [n \in {e[1] : e \in a.text} |-> (CHOOSE e \in a.text : e[1] = n)[2]]

\* (mutant) both conditions are required
KeepSampling_And(n, elapsed, maxTimeMs) == n < MinSamples /\ elapsed < maxTimeMs

\* (mutant) the floor is off by one
KeepSampling_OffByOne(n, elapsed, maxTimeMs) ==
  n <= MinSamples \/ elapsed < maxTimeMs

\* the loop condition of measure
KeepSampling(n, elapsed, maxTimeMs) == n < MinSamples \/ elapsed < maxTimeMs

\* (mutant) parts are numbered by index, from 0
PartsOf_ZeroBased(tags) ==
  [i \in 1..Len(tags) |-> [ETag |-> tags[i], PartNumber |-> i - 1]]

\* completeMultipart's MultipartUpload.Parts
PartsOf(tags) == [i \in 1..Len(tags) |-> [ETag |-> tags[i], PartNumber |-> i]]

RECURSIVE SumBytes(_)
SumBytes(ps) ==
  IF ps = {} THEN 0
  ELSE LET p == CHOOSE q \in ps : TRUE IN p.len + SumBytes(ps \ {p})

Min(a, b) == IF a < b THEN a ELSE b

\* the pages a ListObjectsV2 call with the given MaxKeys may answer with
Pages(maxKeys) ==
  LET keys == {o.Key : o \in objects}
      n == Min(Min(maxKeys, PageSize), Cardinality(keys))
  IN  {page \in SUBSET keys : Cardinality(page) = n}

cur == scenarios[sc]

Lats == [MeasuredOps -> {0, TickMs, 2 * TickMs}]

\* the idle values of the probes
NoProbe == <<>>

\* the program and its endpoint after the module is loaded
InitProgram ==
  /\ sc = 0
  /\ pc = "start"
  /\ inflight = {}
  /\ failed = FALSE
  /\ now = 0
  /\ hr = <<0, 0>>
  /\ measures = <<>>
  /\ artifact = NoFile
  /\ overallStart = 0 /\ res = NoRes /\ start = 0
  /\ mpStart = 0 /\ remainingBytes = 0 /\ chunkSize = 0
  /\ UploadId = 0 /\ Key = NoKey /\ eTags = <<>> /\ partNumber = 0
  /\ lastPart = FALSE
  /\ Objects = {} /\ cleanupFor = "none"
  /\ bucket = "none" /\ objects = {} /\ uploads = {} /\ nextUploadId = 1
  /\ calls = <<>> /\ printed = 0 /\ listed = {} /\ atCleanupStart = {}
  /\ enteredAt = 0 /\ endAt = <<>>
  /\ bucketOps = <<>> /\ passes = 0

InitProbes == made = NoProbe /\ sized = NoProbe /\ report = NoProbe

InitRest ==
  /\ lat \in Lats
  /\ sticky = FALSE
  /\ InitProbes
  /\ InitProgram

\* the sweep of run()
Init == scenarios = Registry /\ InitRest

\* measure() called on one scenario of the sweep under any budget
MaxBudgetTicks == 3
Budgets == {k * TickMs : k \in 0..MaxBudgetTicks}
InitMeasure ==
  /\ scenarios \in {<<[Registry[i] EXCEPT !.maxTimeMs = b]>> :
                       i \in 1..Len(Registry), b \in Budgets}
  /\ InitRest

(* ------------------------------ run, part 1 ---------------------------- *)
Op(op, part) == [op |-> op, part |-> part]

\* a call is issued: it is in flight until it settles
Issue(fl, o) == fl \cup {o}
\* an awaited call has settled
Settle(fl, o) == fl \ {o}

\* the key getKey builds now, and the clock after its two readings
KeyNow(base) == getKey(base, hr, HrAdvance(hr))
HrAfterKey == HrAdvance(HrAdvance(hr))

\* run: s3.send(new CreateBucketCommand)
Run ==
  /\ pc = "start"
  /\ inflight' = Issue(inflight, Op("createBucket", 0))
  /\ bucketOps' = Append(bucketOps, "createBucket")
  /\ pc' = "createBucket"
  /\ UNCHANGED <<env, probes, passes, timing, sc, failed, now, hr, measures, artifact, measureLocals,
                 fnLocals, cleanupLocals, endpoint, calls, printed>>

BucketCreated ==
  /\ pc = "createBucket"
  /\ Op("createBucket", 0) \in inflight
  /\ inflight' = Settle(inflight, Op("createBucket", 0))
  /\ bucket' = "created"
  /\ now' = now + Latency("createBucket")
  /\ pc' = "next"
  /\ UNCHANGED <<env, probes, history, timing, sc, failed, hr, measures, artifact, measureLocals,
                 fnLocals, cleanupLocals, objects, uploads, nextUploadId,
                 calls, printed>>

(* ------------------------------- measure ------------------------------- *)
HasSetup(s) == s.kind \in {"partPresign", "traditional", "multipart"}

\* measures after the synchronous part of the scenario's setup
SetupMeasures(m, s) ==
  IF s.kind = "multipart"
  THEN Put(Put(m, uploadMeasureOf(s), <<>>), completeMeasureOf(s), <<>>)
  ELSE m

\* the fixture a synchronous setup returns
SetupRes(s) ==
  IF s.kind = "traditional"
  THEN [kind |-> "file", file |-> getFileOfSize(Bytes(s.size))]
  ELSE [kind |-> "chunks",
        chunkData |-> getFileOfSize(Bytes(s.chunk)),
        lastChunkData |-> getFileOfSize(Bytes(s.size) % Bytes(s.chunk)),
        uploadMeasure |-> uploadMeasureOf(s),
        completeMeasure |-> completeMeasureOf(s)]

\* measure, up to its first await: the bucket is kept if it exists, the
\* scenario's clock starts, and setup (if any) is called
MeasureEnter ==
  /\ pc = "next"
  /\ sc < Len(scenarios)
  /\ sc' = sc + 1
  /\ LET s == scenarios[sc + 1]
         m == IF s.name \in DOMAIN measures THEN measures
              ELSE Put(measures, s.name, <<>>)
     IN  /\ overallStart' = now
         /\ enteredAt' = now
         /\ endAt' = <<>>
         /\ start' = start
         /\ printed' = 0
         /\ calls' = <<>>
         /\ IF ~HasSetup(s)
            THEN /\ measures' = m
                 /\ pc' = "loop"
                 /\ UNCHANGED <<res, inflight, hr>>
            ELSE IF s.kind = "partPresign"
            THEN /\ measures' = m
                 /\ res' = NoRes
                 /\ Key' = KeyNow(PrefixOf(s))
                 /\ hr' = HrAfterKey
                 /\ inflight' = Issue(inflight, Op("initiate", 0))
                 /\ pc' = "setup_initiate"
            ELSE /\ measures' = SetupMeasures(m, s)
                 /\ res' = SetupRes(s)
                 /\ pc' = "setup"
                 /\ UNCHANGED <<inflight, hr>>
         /\ IF s.kind # "partPresign" THEN UNCHANGED Key ELSE TRUE
  /\ UNCHANGED <<env, probes, history, failed, now, artifact, mpStart, remainingBytes,
                 chunkSize, UploadId, eTags, partNumber, lastPart,
                 cleanupLocals, endpoint>>

\* `await run.setup()` resumes after a synchronous setup
SetupDone ==
  /\ pc = "setup"
  /\ now' = now + Latency("setup")
  /\ pc' = "loop"
  /\ UNCHANGED <<env, probes, history, timing, sc, inflight, failed, hr, measures, artifact,
                 measureLocals, fnLocals, cleanupLocals, endpoint, calls,
                 printed>>

\* the setup of get-multipart-presigned-url-only: its upload is initiated
SetupInitiated ==
  /\ pc = "setup_initiate"
  /\ Op("initiate", 0) \in inflight
  /\ inflight' = Settle(inflight, Op("initiate", 0))
  /\ uploads' = uploads \cup
       {[UploadId |-> nextUploadId, Key |-> Key, by |-> sc, parts |-> {}]}
  /\ nextUploadId' = nextUploadId + 1
  /\ res' = [kind |-> "session", Key |-> Key, UploadId |-> nextUploadId]
  /\ now' = now + Latency("initiate")
  /\ pc' = "loop"
  /\ UNCHANGED <<env, probes, history, timing, sc, failed, hr, measures, artifact, overallStart, start,
                 fnLocals, cleanupLocals, bucket, objects, calls, printed>>

\* the test of measure's while loop
LoopTest ==
  /\ pc = "loop"
  /\ IF KeepSampling(Len(measures[cur.name]), now - overallStart, cur.maxTimeMs)
     THEN /\ Len(measures[cur.name]) < MaxSamples
          /\ pc' = "iter"
     ELSE pc' = "summary"
  /\ UNCHANGED <<env, probes, history, timing, sc, inflight, failed, now, hr, measures, artifact,
                 measureLocals, fnLocals, cleanupLocals, endpoint, calls,
                 printed>>

\* an iteration begins: start is read and fn is called, up to its first await
IterStart ==
  /\ pc = "iter"
  /\ start' = now
  /\ calls' = <<>>
  /\ eTags' = <<>>
  /\ lastPart' = FALSE
  /\ CASE cur.kind = "presign" ->
            /\ Key' = KeyNow(PrefixOf(cur))
            /\ hr' = HrAfterKey
            /\ inflight' = Issue(inflight, Op("presign", 0))
            /\ pc' = "fn_presign"
            /\ UNCHANGED <<remainingBytes, chunkSize, UploadId, partNumber>>
       [] cur.kind = "initiate" ->
            /\ Key' = KeyNow(PrefixOf(cur))
            /\ hr' = HrAfterKey
            /\ inflight' = Issue(inflight, Op("initiate", 0))
            /\ pc' = "fn_initiate"
            /\ UNCHANGED <<remainingBytes, chunkSize, UploadId, partNumber>>
       [] cur.kind = "partPresign" ->
            /\ Key' = res.Key
            /\ UploadId' = res.UploadId
            /\ partNumber' = 1
            /\ inflight' = Issue(inflight, Op("presign", 1))
            /\ pc' = "fn_partPresign"
            /\ UNCHANGED <<remainingBytes, chunkSize, hr>>
       [] cur.kind = "traditional" ->
            /\ Key' = KeyNow(PrefixOf(cur))
            /\ hr' = HrAfterKey
            /\ inflight' = Issue(inflight, Op("presign", 0))
            /\ pc' = "trad_presign"
            /\ UNCHANGED <<remainingBytes, chunkSize, UploadId, partNumber>>
       [] cur.kind = "multipart" ->
            /\ remainingBytes' = Bytes(cur.size)
            /\ chunkSize' = Bytes(cur.chunk)
            /\ Key' = KeyNow(PrefixOf(cur))
            /\ hr' = HrAfterKey
            /\ inflight' = Issue(inflight, Op("initiate", 0))
            /\ pc' = "mp_initiate"
            /\ UNCHANGED <<UploadId, partNumber>>
  /\ UNCHANGED <<env, probes, history, timing, sc, failed, now, measures, artifact, overallStart, res,
                 mpStart, cleanupLocals, endpoint, printed>>

\* (mutant) the sample is taken from the start the multipart fn last read
IterEnd_FromInnerStart ==
  /\ pc = "iter_end"
  /\ measures' = Put(measures, cur.name, push(measures[cur.name], now - mpStart))
  /\ endAt' = Append(endAt, now)
  /\ pc' = "loop"
  /\ UNCHANGED <<env, probes, history, enteredAt, sc, inflight, failed, now, hr,
                 artifact, measureLocals, fnLocals, cleanupLocals, endpoint,
                 calls, printed>>

\* the iteration's fn has returned: end is read and the sample is recorded
IterEnd ==
  /\ pc = "iter_end"
  /\ measures' = Put(measures, cur.name, push(measures[cur.name], now - start))
  /\ endAt' = Append(endAt, now)
  /\ pc' = "loop"
  /\ UNCHANGED <<env, probes, history, enteredAt, sc, inflight, failed, now, hr, artifact, measureLocals,
                 fnLocals, cleanupLocals, endpoint, calls, printed>>

(* ------------------------ the micro-benchmarks ------------------------- *)
\* getTraditionalPresignedUrl has resolved
FnPresigned ==
  /\ pc = "fn_presign"
  /\ Op("presign", 0) \in inflight
  /\ inflight' = Settle(inflight, Op("presign", 0))
  /\ now' = now + Latency("presign")
  /\ pc' = "iter_end"
  /\ UNCHANGED <<env, probes, history, timing, sc, failed, hr, measures, artifact, measureLocals,
                 fnLocals, cleanupLocals, endpoint, calls, printed>>

\* initiateMultipart has resolved: the endpoint holds a new upload
FnInitiated ==
  /\ pc = "fn_initiate"
  /\ Op("initiate", 0) \in inflight
  /\ inflight' = Settle(inflight, Op("initiate", 0))
  /\ uploads' = uploads \cup
       {[UploadId |-> nextUploadId, Key |-> Key, by |-> sc, parts |-> {}]}
  /\ nextUploadId' = nextUploadId + 1
  /\ now' = now + Latency("initiate")
  /\ pc' = "iter_end"
  /\ UNCHANGED <<env, probes, history, timing, sc, failed, hr, measures, artifact, measureLocals,
                 fnLocals, cleanupLocals, bucket, objects, calls, printed>>

\* getMultipartPresignedUrl(Key, UploadId, 1) has resolved
FnPartPresigned ==
  /\ pc = "fn_partPresign"
  /\ Op("presign", 1) \in inflight
  /\ inflight' = Settle(inflight, Op("presign", 1))
  /\ now' = now + Latency("presign")
  /\ pc' = "iter_end"
  /\ UNCHANGED <<env, probes, history, timing, sc, failed, hr, measures, artifact, measureLocals,
                 fnLocals, cleanupLocals, endpoint, calls, printed>>

(* -------------------------- traditionalUpload -------------------------- *)
\* the presigned URL is there: ky.put(url, {body: file})
TradPresigned ==
  /\ pc = "trad_presign"
  /\ Op("presign", 0) \in inflight
  /\ inflight' = Issue(Settle(inflight, Op("presign", 0)), Op("put", 0))
  /\ now' = now + Latency("presign")
  /\ pc' = "trad_put"
  /\ UNCHANGED <<env, probes, history, timing, sc, failed, hr, measures, artifact, measureLocals,
                 fnLocals, cleanupLocals, endpoint, calls, printed>>

\* the PUT has resolved: the object is stored under Key
TradPut ==
  /\ pc = "trad_put"
  /\ Op("put", 0) \in inflight
  /\ inflight' = Settle(inflight, Op("put", 0))
  /\ objects' = {o \in objects : o.Key # Key} \cup
       {[Key |-> Key, by |-> sc, bytes |-> res.file]}
  /\ now' = now + Latency("put")
  /\ pc' = "iter_end"
  /\ UNCHANGED <<env, probes, history, timing, sc, failed, hr, measures, artifact, measureLocals,
                 fnLocals, cleanupLocals, bucket, uploads, nextUploadId,
                 calls, printed>>

(* --------------------------- the multipart fn -------------------------- *)
\* initiateMultipart has resolved with UploadId and Key
MpInitiated ==
  /\ pc = "mp_initiate"
  /\ Op("initiate", 0) \in inflight
  /\ inflight' = Settle(inflight, Op("initiate", 0))
  /\ uploads' = uploads \cup
       {[UploadId |-> nextUploadId, Key |-> Key, by |-> sc, parts |-> {}]}
  /\ nextUploadId' = nextUploadId + 1
  /\ UploadId' = nextUploadId
  /\ eTags' = <<>>
  /\ partNumber' = 1
  /\ now' = now + Latency("initiate")
  /\ mpStart' = now'
  /\ pc' = "mp_loop"
  /\ UNCHANGED <<env, probes, history, timing, sc, failed, hr, measures, artifact, measureLocals,
                 remainingBytes, chunkSize, Key, lastPart, cleanupLocals,
                 bucket, objects, calls, printed>>

\* the tests `while (remainingBytes > chunkSize)` and `if (remainingBytes > 0)`;
\* multipartUpload is called up to its await of the presigned URL
MpLoop ==
  /\ pc = "mp_loop"
  /\ IF remainingBytes > chunkSize
     THEN /\ inflight' = Issue(inflight, Op("presign", partNumber))
          /\ lastPart' = FALSE
          /\ pc' = "mp_presign"
     ELSE IF remainingBytes > 0
     THEN /\ inflight' = Issue(inflight, Op("presign", partNumber))
          /\ lastPart' = TRUE
          /\ pc' = "mp_presign"
     ELSE /\ pc' = "mp_parts_done"
          /\ UNCHANGED <<inflight, lastPart>>
  /\ UNCHANGED <<env, probes, history, timing, sc, failed, now, hr, measures, artifact, measureLocals,
                 mpStart, remainingBytes, chunkSize, UploadId, Key, eTags,
                 partNumber, cleanupLocals, endpoint, calls, printed>>

\* (mutant) the part's PUT is sent and not awaited
MpPresigned_NoAwait ==
  /\ pc = "mp_presign"
  /\ Op("presign", partNumber) \in inflight
  /\ inflight' = Issue(Settle(inflight, Op("presign", partNumber)),
                       Op("put", partNumber))
  /\ now' = now + Latency("presign")
  /\ IF lastPart
     THEN /\ pc' = "mp_parts_done"
          /\ UNCHANGED <<partNumber, remainingBytes>>
     ELSE /\ partNumber' = partNumber + 1
          /\ remainingBytes' = remainingBytes - Bytes(cur.chunk)
          /\ pc' = "mp_loop"
  /\ UNCHANGED <<env, probes, history, timing, sc, failed, hr, measures, artifact, measureLocals,
                 mpStart, chunkSize, UploadId, Key, eTags, lastPart,
                 cleanupLocals, endpoint, calls, printed>>

\* the part's presigned URL is there: ky.put(url, {body: file})
MpPresigned ==
  /\ pc = "mp_presign"
  /\ Op("presign", partNumber) \in inflight
  /\ inflight' = Issue(Settle(inflight, Op("presign", partNumber)),
                       Op("put", partNumber))
  /\ now' = now + Latency("presign")
  /\ pc' = "mp_put"
  /\ UNCHANGED <<env, probes, history, timing, sc, failed, hr, measures, artifact, measureLocals,
                 fnLocals, cleanupLocals, endpoint, calls, printed>>

\* the body multipartUpload sends for the current part
PartBody == IF lastPart THEN res.lastChunkData ELSE res.chunkData

\* the tag the endpoint gives a stored part
TagOf(id, n) == <<id, n>>
\* headers.get('ETag') ?? '' when the response carries no ETag header
NoTag == <<>>

\* (mutant) a response without an ETag header makes multipartUpload throw
MpPut_MissingTagThrows ==
  /\ pc = "mp_put"
  /\ Op("put", partNumber) \in inflight
  /\ inflight' = Settle(inflight, Op("put", partNumber))
  /\ uploads' =
       {IF u.UploadId = UploadId
        THEN [u EXCEPT !.parts = {q \in @ : q.PartNumber # partNumber} \cup
                {[PartNumber |-> partNumber, len |-> PartBody,
                  ETag |-> TagOf(UploadId, partNumber)]}]
        ELSE u : u \in uploads}
  /\ now' = now + Latency("put")
  /\ \E header \in BOOLEAN :
       LET tag == IF header THEN TagOf(UploadId, partNumber) ELSE NoTag
       IN  /\ calls' = Append(calls, [op |-> "uploadPart", PartNumber |-> partNumber,
                                      len |-> PartBody, ETag |-> tag,
                                      header |-> header])
           /\ IF ~header
              THEN /\ failed' = TRUE
                   /\ pc' = "aborted"
                   /\ UNCHANGED <<eTags, partNumber, remainingBytes>>
              ELSE /\ eTags' = push(eTags, tag)
                   /\ UNCHANGED failed
                   /\ IF lastPart
                      THEN /\ pc' = "mp_parts_done"
                           /\ UNCHANGED <<partNumber, remainingBytes>>
                      ELSE /\ partNumber' = partNumber + 1
                           /\ remainingBytes' = remainingBytes - Bytes(cur.chunk)
                           /\ pc' = "mp_loop"
  /\ UNCHANGED <<env, probes, history, timing, sc, hr, measures, artifact,
                 measureLocals, mpStart, chunkSize, UploadId, Key, lastPart,
                 cleanupLocals, bucket, objects, nextUploadId, printed>>

\* the part's PUT has resolved: the endpoint holds the part, eTags grows by
\* the response's ETag header, or by '' when the header is missing
MpPut ==
  /\ pc = "mp_put"
  /\ Op("put", partNumber) \in inflight
  /\ inflight' = Settle(inflight, Op("put", partNumber))
  /\ \E header \in BOOLEAN :
       LET tag == IF header THEN TagOf(UploadId, partNumber) ELSE NoTag
       IN  /\ eTags' = push(eTags, tag)
           /\ calls' = Append(calls, [op |-> "uploadPart", PartNumber |-> partNumber,
                                      len |-> PartBody, ETag |-> tag,
                                      header |-> header])
  /\ uploads' =
       {IF u.UploadId = UploadId
        THEN [u EXCEPT !.parts = {q \in @ : q.PartNumber # partNumber} \cup
                {[PartNumber |-> partNumber, len |-> PartBody,
                  ETag |-> TagOf(UploadId, partNumber)]}]
        ELSE u : u \in uploads}
  /\ now' = now + Latency("put")
  /\ IF lastPart
     THEN /\ pc' = "mp_parts_done"
          /\ UNCHANGED <<partNumber, remainingBytes>>
     ELSE /\ partNumber' = partNumber + 1
          /\ remainingBytes' = remainingBytes - Bytes(cur.chunk)
          /\ pc' = "mp_loop"
  /\ UNCHANGED <<env, probes, history, timing, sc, failed, hr, measures, artifact, measureLocals,
                 mpStart, chunkSize, UploadId, Key, lastPart, cleanupLocals,
                 bucket, objects, nextUploadId, printed>>

\* all parts are uploaded: the part-upload sample is recorded and
\* completeMultipart is called
MpPartsDone ==
  /\ pc = "mp_parts_done"
  /\ measures' = Put(measures, res.uploadMeasure,
                     push(measures[res.uploadMeasure], now - mpStart))
  /\ mpStart' = now
  /\ inflight' = Issue(inflight, Op("complete", 0))
  /\ calls' = Append(calls, [op |-> "complete", UploadId |-> UploadId,
                             Key |-> Key, Parts |-> PartsOf(eTags)])
  /\ pc' = "mp_complete"
  /\ UNCHANGED <<env, probes, history, timing, sc, failed, now, hr, artifact, measureLocals,
                 remainingBytes, chunkSize, UploadId, Key, eTags, partNumber,
                 lastPart, cleanupLocals, endpoint, printed>>

\* completeMultipart has resolved: the endpoint has assembled the object from
\* the parts the call named, and the finalize sample is recorded
MpCompleted ==
  /\ pc = "mp_complete"
  /\ Op("complete", 0) \in inflight
  /\ inflight' = Settle(inflight, Op("complete", 0))
  /\ LET u == CHOOSE v \in uploads : v.UploadId = UploadId
         named == {q \in u.parts : q.PartNumber \in 1..Len(eTags)}
     IN  /\ objects' = {o \in objects : o.Key # Key} \cup
               {[Key |-> Key, by |-> sc, bytes |-> SumBytes(named)]}
         /\ uploads' = uploads \ {u}
  /\ now' = now + Latency("complete")
  /\ measures' = Put(measures, res.completeMeasure,
                     push(measures[res.completeMeasure], now' - mpStart))
  /\ pc' = "iter_end"
  /\ UNCHANGED <<env, probes, history, timing, sc, failed, hr, artifact, measureLocals, fnLocals,
                 cleanupLocals, bucket, nextUploadId, calls, printed>>

(* ------------------------------- flush --------------------------------- *)
\* (mutant) measure does not call cleanup
Summary_NoCleanup ==
  /\ pc = "summary"
  /\ printed' = printed + 1
  /\ pc' = "writeFile"
  /\ UNCHANGED <<env, probes, history, timing, sc, inflight, failed, now, hr, measures, artifact,
                 measureLocals, fnLocals, cleanupLocals, endpoint, calls>>

\* sampling has ended: the summary is printed and cleanup is called, up to
\* its first ListObjectsV2
Summary ==
  /\ pc = "summary"
  /\ printed' = printed + 1
  /\ inflight' = Issue(inflight, Op("list", 0))
  /\ cleanupFor' = "measure"
  /\ listed' = {}
  /\ atCleanupStart' = {o.Key : o \in objects}
  /\ passes' = 0
  /\ pc' = "cleanup_list"
  /\ UNCHANGED <<env, probes, bucketOps, timing, sc, failed, now, hr, measures,
                 artifact, measureLocals, fnLocals, Objects, endpoint, calls>>

\* a listing has resolved with one page of keys.  While the page is not empty
\* cleanup sends it to DeleteObjects; on an empty page cleanup returns, to
\* measure (which writes results.json) or to run (which deletes the bucket)
CleanupListed ==
  /\ pc = "cleanup_list"
  /\ Op("list", 0) \in inflight
  /\ \E page \in Pages(MaxKeys) :
       /\ Objects' = page
       /\ listed' = listed \cup page
       /\ IF page # {}
          THEN /\ inflight' = Issue(Settle(inflight, Op("list", 0)), Op("delete", 0))
               /\ pc' = "cleanup_delete"
               /\ UNCHANGED bucketOps
          ELSE IF cleanupFor = "measure"
          THEN /\ inflight' = Settle(inflight, Op("list", 0))
               /\ pc' = "writeFile"
               /\ UNCHANGED bucketOps
          ELSE /\ inflight' = Issue(Settle(inflight, Op("list", 0)),
                                    Op("deleteBucket", 0))
               /\ bucketOps' = Append(bucketOps, "deleteBucket")
               /\ pc' = "deleteBucket"
  /\ now' = now + Latency("list")
  /\ UNCHANGED <<env, probes, passes, timing, sc, failed, hr, measures, artifact, measureLocals,
                 fnLocals, cleanupFor, atCleanupStart, endpoint, calls, printed>>

\* (mutant) cleanup returns after one delete batch, without listing again
CleanupDeleted_Once ==
  /\ pc = "cleanup_delete"
  /\ Op("delete", 0) \in inflight
  /\ objects' = {o \in objects : o.Key \notin Objects}
  /\ passes' = passes + 1
  /\ IF cleanupFor = "measure"
     THEN /\ inflight' = Settle(inflight, Op("delete", 0))
          /\ pc' = "writeFile"
     ELSE /\ inflight' = Issue(Settle(inflight, Op("delete", 0)),
                               Op("deleteBucket", 0))
          /\ pc' = "deleteBucket"
  /\ now' = now + Latency("delete")
  /\ UNCHANGED <<env, probes, bucketOps, timing, sc, failed, hr, measures, artifact, measureLocals,
                 fnLocals, cleanupLocals, bucket, uploads, nextUploadId, calls,
                 printed>>

\* (mutant) DeleteObjects is answered and removes nothing
Deleted_Nothing(objs, keys) == objs

\* the bucket after DeleteObjects has removed the keys it was given
Deleted(objs, keys) == {o \in objs : o.Key \notin keys}

\* DeleteObjects has resolved: the keys it was given are gone (unless the
\* endpoint is sticky); cleanup lists again.  The loop has no cap of its own:
\* MaxPasses only keeps the model of a sticky endpoint finite.
CleanupDeleted ==
  /\ pc = "cleanup_delete"
  /\ Op("delete", 0) \in inflight
  /\ passes < MaxPasses
  /\ objects' = IF sticky THEN objects ELSE Deleted(objects, Objects)
  /\ passes' = passes + 1
  /\ inflight' = Issue(Settle(inflight, Op("delete", 0)), Op("list", 0))
  /\ now' = now + Latency("delete")
  /\ pc' = "cleanup_list"
  /\ UNCHANGED <<env, probes, bucketOps, timing, sc, failed, hr, measures, artifact, measureLocals,
                 fnLocals, cleanupLocals, bucket, uploads, nextUploadId, calls,
                 printed>>

\* writeFile('results.json', JSON.stringify(measures)) has resolved; measure returns
Persisted ==
  /\ pc = "writeFile"
  /\ artifact' = JSONstringify(measures)
  /\ now' = now + Latency("writeFile")
  /\ pc' = "next"
  /\ UNCHANGED <<env, probes, history, timing, sc, inflight, failed, hr, measures, measureLocals,
                 fnLocals, cleanupLocals, endpoint, calls, printed>>

(* ------------------------------ run, part 2 ---------------------------- *)
\* (mutant) run empties and deletes the bucket after any scenario
FinalCleanup_Early ==
  /\ pc = "next"
  /\ sc >= 1
  /\ inflight' = Issue(inflight, Op("list", 0))
  /\ cleanupFor' = "run"
  /\ listed' = {}
  /\ atCleanupStart' = {o.Key : o \in objects}
  /\ passes' = 0
  /\ pc' = "cleanup_list"
  /\ UNCHANGED <<env, probes, bucketOps, timing, sc, failed, now, hr, measures,
                 artifact, measureLocals, fnLocals, Objects, endpoint, calls,
                 printed>>

\* every scenario is measured: run calls cleanup once more
FinalCleanup ==
  /\ pc = "next"
  /\ sc = Len(scenarios)
  /\ inflight' = Issue(inflight, Op("list", 0))
  /\ cleanupFor' = "run"
  /\ listed' = {}
  /\ atCleanupStart' = {o.Key : o \in objects}
  /\ passes' = 0
  /\ pc' = "cleanup_list"
  /\ UNCHANGED <<env, probes, bucketOps, timing, sc, failed, now, hr, measures,
                 artifact, measureLocals, fnLocals, Objects, endpoint, calls,
                 printed>>

\* DeleteBucket has resolved; run returns
BucketDeleted ==
  /\ pc = "deleteBucket"
  /\ Op("deleteBucket", 0) \in inflight
  /\ inflight' = Settle(inflight, Op("deleteBucket", 0))
  /\ bucket' = "deleted"
  /\ now' = now + Latency("deleteBucket")
  /\ pc' = "done"
  /\ UNCHANGED <<env, probes, history, timing, sc, failed, hr, measures, artifact, measureLocals,
                 fnLocals, cleanupLocals, objects, uploads, nextUploadId,
                 calls, printed>>

(* ------------------------------- failure ------------------------------- *)
\* (mutant) the error is caught and the sweep goes on with the next scenario
OnError_Skip(at) == "next"

\* where an error leaves the program: nothing in measure,
\* measure*UploadCases or run catches it, so run()'s promise rejects
OnError(at) == "aborted"

\* a call in flight rejects (TransportFailure)
Reject ==
  /\ inflight # {}
  /\ failed' = TRUE
  /\ inflight' = {}
  /\ pc' = OnError(pc)
  /\ UNCHANGED <<env, probes, history, timing, sc, now, hr, measures, artifact, measureLocals,
                 fnLocals, cleanupLocals, endpoint, calls, printed>>

\* the initiation answers without UploadId or Key: the multipart fn, and the
\* setup of get-multipart-presigned-url-only, throw
MissingSessionField ==
  /\ pc \in {"mp_initiate", "setup_initiate"}
  /\ Op("initiate", 0) \in inflight
  /\ failed' = TRUE
  /\ inflight' = Settle(inflight, Op("initiate", 0))
  /\ uploads' = uploads \cup
       {[UploadId |-> nextUploadId, Key |-> Key, by |-> sc, parts |-> {}]}
  /\ nextUploadId' = nextUploadId + 1
  /\ pc' = OnError(pc)
  /\ UNCHANGED <<env, probes, history, timing, sc, now, hr, measures, artifact, measureLocals,
                 fnLocals, cleanupLocals, bucket, objects, calls, printed>>

(* ---------------------------- specification ---------------------------- *)
Next ==
  \/ Run \/ BucketCreated
  \/ MeasureEnter \/ SetupDone \/ SetupInitiated
  \/ LoopTest \/ IterStart \/ IterEnd
  \/ FnPresigned \/ FnInitiated \/ FnPartPresigned
  \/ TradPresigned \/ TradPut
  \/ MpInitiated \/ MpLoop \/ MpPresigned \/ MpPut \/ MpPartsDone \/ MpCompleted
  \/ Summary \/ CleanupListed \/ CleanupDeleted \/ Persisted
  \/ FinalCleanup \/ BucketDeleted
  \/ Reject \/ MissingSessionField

Spec == Init /\ [][Next]_vars

SpecMeasure == InitMeasure /\ [][Next]_vars

\* measure() and the final cleanup() on one scenario of the sweep, against an
\* endpoint that deletes what it is told to or one that deletes nothing
InitCleanup ==
  /\ scenarios \in {<<Registry[i]>> : i \in 1..Len(Registry)}
  /\ lat = [o \in MeasuredOps |-> TickMs]
  /\ sticky \in BOOLEAN
  /\ InitProbes
  /\ InitProgram

\* a ListObjectsV2 or DeleteObjects call that stays in flight is answered
SpecCleanup ==
  /\ InitCleanup
  /\ [][Next]_vars
  /\ WF_vars(CleanupListed)
  /\ WF_vars(CleanupDeleted)

(* ----------------------------- getKey alone ---------------------------- *)
\* Calls of getKey with one scenario's prefix, any time apart.
Readings == (0..MaxSec) \X (0..MaxNanos)

\* reading b of the monotonic clock is later than reading a
Later(a, b) == b[1] > a[1] \/ (b[1] = a[1] /\ b[2] > a[2])

\* the clock right after the last key was built
HrAtLastKey ==
  IF made = <<>> THEN <<0, 0>>
  ELSE HrAdvance(HrAdvance(made[Len(made)].at))

\* time passes before the next call of getKey
Elapse ==
  /\ pc = "start"
  /\ Len(made) < MaxKeysMade
  /\ hr = HrAtLastKey
  /\ \E h \in Readings : Later(hr, h) /\ hr' = h
  /\ UNCHANGED <<env, made, sized, report, history, timing, sc, pc, inflight,
                 failed, now, measures, artifact, measureLocals, fnLocals,
                 cleanupLocals, endpoint, calls, printed>>

\* getKey(base) is called with the prefix of the first scenario
KeyMade ==
  /\ pc = "start"
  /\ Len(made) < MaxKeysMade
  /\ made' = Append(made, [at |-> hr, key |-> KeyNow(PrefixOf(Registry[1]))])
  /\ hr' = HrAfterKey
  /\ UNCHANGED <<env, sized, report, history, timing, sc, pc, inflight,
                 failed, now, measures, artifact, measureLocals, fnLocals,
                 cleanupLocals, endpoint, calls, printed>>

NextKey == Elapse \/ KeyMade

\* a probe runs in the freshly loaded module, every call taking one tick
InitProbe ==
  /\ scenarios = Registry
  /\ lat = [o \in MeasuredOps |-> TickMs]
  /\ sticky = FALSE
  /\ InitProgram

InitKey == InitProbe /\ InitProbes

SpecKey == InitKey /\ [][NextKey]_vars

(* --------------------------- sizeToBytes alone ------------------------- *)
\* the largest integer of the model
MaxInt == (Pow(2, 30) - 1) * 2 + 1

\* last characters of the probed strings; <<>> leaves a digit at the end
Suffixes == {<<"k">>, <<"m">>, <<"g">>, <<"K">>, <<"M">>, <<"G">>, <<"b">>, <<>>}

Power1024(suffix) ==
  CASE suffix = <<"k">> -> KiB
    [] suffix = <<"m">> -> KiB * KiB
    [] suffix = <<"g">> -> KiB * KiB * KiB
    [] OTHER -> 1

\* the size strings: a whole number, at most one decimal, and a suffix, for
\* as far as the byte count stays below MaxInt.  frac = 10 is no decimal.
SizeInputs ==
  {[whole |-> w, frac |-> f, suffix |-> x,
    size |-> Decimal(w)
               \o (IF f < 10 THEN <<".", DigitChar[f + 1]>> ELSE <<>>) \o x] :
     w \in 0..MaxWhole, f \in 0..10, x \in Suffixes}

Representable(i) ==
  (IF i.frac < 10 THEN i.whole * 10 + i.frac ELSE i.whole)
    <= MaxInt \div Power1024(i.suffix)

InitSize ==
  /\ InitProbe
  /\ made = NoProbe /\ report = NoProbe
  /\ sized \in {[in |-> i, done |-> FALSE] : i \in {j \in SizeInputs : Representable(j)}}

\* sizeToBytes(size) is called
Sized ==
  /\ pc = "start"
  /\ sized # NoProbe
  /\ ~sized.done
  /\ sized' = [in |-> sized.in, done |-> TRUE, out |-> sizeToBytes(sized.in.size)]
  /\ UNCHANGED <<env, made, report, history, timing, sc, pc, inflight, failed,
                 now, hr, measures, artifact, measureLocals, fnLocals,
                 cleanupLocals, endpoint, calls, printed>>

NextSize == Sized

SpecSize == InitSize /\ [][NextSize]_vars

(* ---------------------------- the Reporter ---------------------------- *)
\* src/chart.ts reads a results.json and prints tables and chart series.
\* JavaScript values it handles: numbers num/den, NaN, null, undefined, strings.
NaN == [t |-> "NaN"]
Null == [t |-> "null"]
Undefined == [t |-> "undefined"]
Num(n, d) == [t |-> "number", num |-> n, den |-> d]
Str(text) == [t |-> "string", text |-> text]
Thrown == [t |-> "TypeError"]

RECURSIVE SumSeq(_)
SumSeq(xs) == IF xs = <<>> THEN 0 ELSE Head(xs) + SumSeq(Tail(xs))

\* new Stats().push(xs).amean(): the arithmetic mean, NaN of no data (0 / 0)
amean(xs) == IF Len(xs) = 0 THEN NaN ELSE Num(SumSeq(xs), Len(xs))

\* v == null || v == undefined, the test of ?? and ?.
Nullish(v) == v.t \in {"null", "undefined"}

isNaN(v) == v.t \in {"NaN", "undefined"}

\* Number.prototype.toFixed(3): three decimals, "NaN" of NaN; a TypeError when
\* called on null or undefined
toFixed3(v) ==
  IF Nullish(v) THEN Thrown
  ELSE IF v.t = "NaN" THEN Str(<<"N", "a", "N">>)
  ELSE LET th == (v.num * 1000 + v.den \div 2) \div v.den
           f == th % 1000
       IN  Str(Decimal(th \div 1000) \o <<".">>
               \o <<DigitChar[(f \div 100) + 1], DigitChar[((f \div 10) % 10) + 1],
                    DigitChar[(f % 10) + 1]>>)

\* processBasicStats: the mean cell of get-traditional-presigned-url
BasicKey == Name("get-traditional-presigned-url", NoStr, NoStr)
processBasicStats(results) == toFixed3(amean(results[BasicKey]))

\* the size columns of the tables and charts, shortened
ReportSizes == <<S512k, S5m>>
ReportChunk == S5m

\* fullUploadStats: byType.traditional and byType['multipart-5m-chunks']
byTypeTraditional(results) ==
  [size \in {k[2] : k \in {n \in DOMAIN results : n[1] = "traditional-upload"}} |->
     amean(results[Name("traditional-upload", size, NoStr)])]

byTypeMultipart(results, chunk) ==
  [size \in {k[2] : k \in {n \in DOMAIN results :
                              n[1] = "upload-multipart-total" /\ n[3] = chunk}} |->
     amean(results[Name("upload-multipart-total", size, chunk)])]

\* row[size]
Lookup(row, size) == IF size \in DOMAIN row THEN row[size] ELSE Undefined

\* fullUploadStats.dataFromRow: [row['512k'], ...].map((v) => v ?? null)
dataFromRow(row) ==
  [i \in 1..Len(ReportSizes) |->
     LET v == Lookup(row, ReportSizes[i]) IN IF Nullish(v) THEN Null ELSE v]

\* fullUploadStats.tableFromRow: .map((v) => v?.toFixed(3) ?? '')
tableFromRow(row) ==
  [i \in 1..Len(ReportSizes) |->
     LET v == dataFromRow(row)[i] IN IF Nullish(v) THEN Str(<<>>) ELSE toFixed3(v)]

\* processDetailedMultipartStats.dataFromRow(chunkSize, 'upload'), 512k column
detailedDataFromRow(results, chunk) ==
  <<amean(results[Name("upload-multipart-upload", S512k, chunk)])>>

\* its table row: .map((x) => (isNaN(x) ? '' : x.toFixed(3)))
detailedTableRow(results, chunk) ==
  [i \in 1..1 |->
     LET x == detailedDataFromRow(results, chunk)[i]
     IN  IF isNaN(x) THEN Str(<<>>) ELSE toFixed3(x)]

\* what the Reporter prints and plots for a store
Reporter(results) ==
  [basic |-> processBasicStats(results),
   traditionalSeries |-> dataFromRow(byTypeTraditional(results)),
   traditionalCells |-> tableFromRow(byTypeTraditional(results)),
   multipartSeries |-> dataFromRow(byTypeMultipart(results, ReportChunk)),
   multipartCells |-> tableFromRow(byTypeMultipart(results, ReportChunk)),
   detailedSeries |-> detailedDataFromRow(results, ReportChunk),
   detailedCells |-> detailedTableRow(results, ReportChunk)]

\* the sample sequences a bucket of the probed store may hold
SampleSeqs ==
  UNION {[1..n -> {0, TickMs}] : n \in 0..MaxReportLen}

\* results.json files: the first four buckets always, traditional-upload-5m
\* in some
Stores ==
  LET always == {BasicKey, Name("traditional-upload", S512k, NoStr),
                 Name("upload-multipart-total", S512k, ReportChunk),
                 Name("upload-multipart-upload", S512k, ReportChunk)}
      some == Name("traditional-upload", S5m, NoStr)
  IN  [always -> SampleSeqs] \cup [always \cup {some} -> SampleSeqs]

InitReport ==
  /\ InitProbe
  /\ made = NoProbe /\ sized = NoProbe
  /\ report \in {[results |-> st, done |-> FALSE] : st \in Stores}

\* chart.ts runs on the store
Rendered ==
  /\ pc = "start"
  /\ report # NoProbe
  /\ ~report.done
  /\ report' = [results |-> report.results, done |-> TRUE,
                out |-> Reporter(report.results)]
  /\ UNCHANGED <<env, made, sized, history, timing, sc, pc, inflight, failed,
                 now, hr, measures, artifact, measureLocals, fnLocals,
                 cleanupLocals, endpoint, calls, printed>>

NextReport == Rendered

SpecReport == InitReport /\ [][NextReport]_vars

(* ------------------------------ properties ----------------------------- *)
SamplingPcs ==
  {"setup", "setup_initiate", "loop", "iter", "iter_end", "fn_presign",
   "fn_initiate", "fn_partPresign", "trad_presign", "trad_put", "mp_initiate",
   "mp_loop", "mp_presign", "mp_put", "mp_parts_done", "mp_complete"}

\* inside an iteration of the current scenario
IterPcs == SamplingPcs \ {"setup", "setup_initiate", "loop"}

\* the sampling of the current scenario has ended without an error
Sampled == sc >= 1 /\ ~failed /\ pc \notin SamplingPcs

\* C1: an iteration is started exactly when fewer than 3 samples are
\* collected under the scenario's name or less than maxTimeMs has elapsed
\* since measure() was entered (setup included); iterations are started by
\* nothing but that test, and a scenario whose sampling has ended holds at
\* least 3 samples.
C1_StartedIffFloorOrBudget ==
  [][/\ (pc = "loop" /\ pc' = "iter") =>
          (Len(measures[cur.name]) < 3 \/ now - enteredAt < cur.maxTimeMs)
     /\ (pc = "loop" /\ pc' = "summary") =>
          ~(Len(measures[cur.name]) < 3 \/ now - enteredAt < cur.maxTimeMs)
     /\ (pc' = "iter" /\ pc # "iter") => pc = "loop"
     /\ (pc' = "summary" /\ pc # "summary") => pc = "loop"
     /\ Sampled' => Len(measures'[cur'.name]) >= 3]_vars

\* a fourth iteration is started because the budget has not elapsed, some
\* time having passed since the scenario started
C1_Witness ==
  /\ pc = "iter"
  /\ Len(measures[cur.name]) = 3
  /\ now - enteredAt > 0
  /\ now - enteredAt < cur.maxTimeMs

\* C2: when the budget is exhausted by the time the third iteration ends,
\* the scenario holds exactly 3 samples from then on and no further
\* iteration is running; and sampling never ends with fewer than 3.
C2_ExactlyThreeWhenBudgetSpent ==
  /\ (sc >= 1 /\ Len(endAt) >= 3 /\ endAt[3] - enteredAt >= cur.maxTimeMs) =>
        /\ Len(measures[cur.name]) = 3
        /\ Len(endAt) = 3
        /\ pc \notin IterPcs
  /\ Sampled => Len(measures[cur.name]) >= 3

\* sampling has ended with 3 samples after a first iteration that alone
\* outlasted the budget
C2_Witness ==
  /\ pc = "summary"
  /\ Len(endAt) = 3
  /\ endAt[1] - enteredAt > cur.maxTimeMs
  /\ Len(measures[cur.name]) = 3

Ceil(a, b) == (a + b - 1) \div b

\* C3: a finished multipart iteration has issued ceil(size / chunk) part
\* uploads, numbered 1..n in that order, then one finalize call whose n parts
\* carry, in order, the tags those uploads returned; 10m by 5m gives 2 parts
\* and 5m by 5m gives 1.
C3_PartsThenOneFinalize ==
  (pc = "iter_end" /\ cur.kind = "multipart") =>
    LET n == Ceil(Bytes(cur.size), Bytes(cur.chunk))
    IN  /\ Len(calls) = n + 1
        /\ \A i \in 1..n :
             calls[i].op = "uploadPart" /\ calls[i].PartNumber = i
        /\ calls[n + 1].op = "complete"
        /\ Len(calls[n + 1].Parts) = n
        /\ \A i \in 1..n :
             /\ calls[n + 1].Parts[i].PartNumber = i
             /\ calls[n + 1].Parts[i].ETag = calls[i].ETag
        /\ (cur.size = S10m /\ cur.chunk = S5m) => n = 2
        /\ (cur.size = S5m /\ cur.chunk = S5m) => n = 1

\* an iteration of 10m in chunks of 5m has finished, every part tagged
C3_Witness ==
  /\ pc = "iter_end"
  /\ cur.kind = "multipart"
  /\ cur.size = S10m /\ cur.chunk = S5m
  /\ Len(calls) = 3
  /\ calls[1].ETag # NoTag /\ calls[2].ETag # NoTag

RECURSIVE SumLen(_)
SumLen(cs) == IF cs = <<>> THEN 0 ELSE Head(cs).len + SumLen(Tail(cs))

PartCalls == SelectSeq(calls, LAMBDA c : c.op = "uploadPart")

\* C4: in a finished multipart iteration the lengths of the uploaded parts
\* sum to the scenario's transfer size and no part is empty.
C4_PartsSumToSize ==
  (pc = "iter_end" /\ cur.kind = "multipart") =>
    /\ SumLen(PartCalls) = Bytes(cur.size)
    /\ \A i \in 1..Len(PartCalls) : PartCalls[i].len > 0

\* the measurement names scenario s records under
NamesOf(s) ==
  IF s.kind = "multipart"
  THEN {s.name, uploadMeasureOf(s), completeMeasureOf(s)}
  ELSE {s.name}

\* C5: whenever measure() has returned, and when the sweep has ended, the
\* artifact parses to the whole in-memory store; and after an abort during
\* scenario k the artifact holds every sample of scenarios 1..k-1, in all
\* their buckets.
C5_ArtifactIsWholeStore ==
  /\ ((pc = "next" /\ sc >= 1) \/ pc = "done") =>
        artifact.exists /\ JSONparse(artifact) = measures
  /\ failed =>
        \A k \in 1..(sc - 1) : \A n \in NamesOf(scenarios[k]) :
          /\ n \in DOMAIN measures
          /\ Len(measures[n]) >= 3
          /\ <<n, measures[n]>> \in artifact.text

\* the sweep aborts in a multipart scenario that follows a multipart scenario
C5_Witness ==
  /\ failed
  /\ sc >= 2
  /\ cur.kind = "multipart"
  /\ scenarios[sc - 1].kind = "multipart"
  /\ Len(measures[cur.name]) >= 1


\* C6 as claimed: from the start of a scenario after the first, the bucket
\* holds nothing an earlier scenario created, neither an object nor an
\* upload in progress.
C6_NothingFromEarlier ==
  (sc >= 2 /\ pc \in SamplingPcs) =>
    /\ \A o \in objects : o.by = sc
    /\ \A u \in uploads : u.by = sc

\* C6: while a scenario after the first runs the bucket holds no object that
\* an earlier scenario created, and between two scenarios it holds no object.
C6_NoObjectFromEarlier ==
  /\ (sc >= 2 /\ pc \in SamplingPcs) => \A o \in objects : o.by = sc
  /\ (pc = "next" /\ sc >= 1) => objects = {}

\* a scenario starts after one that stored objects, while uploads that an
\* earlier scenario initiated are still in progress
C6_Witness ==
  /\ sc >= 2
  /\ pc = "loop"
  /\ measures[cur.name] = <<>>
  /\ scenarios[sc - 1].kind \in {"traditional", "multipart"}
  /\ \E u \in uploads : u.by < sc

\* C7: once a call has rejected or a step has thrown the program is stopped
\* with nothing in flight, and from then on nothing changes: no retry, no
\* further iteration, no later scenario, no further write.
C7_ErrorAbortsSweep ==
  [][/\ failed' => (pc' = "aborted" /\ inflight' = {})
     /\ failed => UNCHANGED <<sc, pc, inflight, measures, artifact, objects,
                              uploads, calls, endAt, printed, bucket>>]_vars

\* the setup of a scenario that is not the last has raised
C7_Witness ==
  /\ failed
  /\ pc = "aborted"
  /\ sc >= 1
  /\ cur.kind = "partPresign"
  /\ res.kind = "none"
  /\ sc < Len(scenarios)

\* C8: at most one storage or transport call is in flight; an iteration
\* starts and ends with none; in a multipart iteration the calls for part k
\* are in flight only when parts 1..k-1 have returned, in order, and the
\* finalize call only when every part has.
C8_OneCallAtATime ==
  /\ Cardinality(inflight) <= 1
  /\ pc \in {"loop", "iter", "iter_end", "summary", "next"} => inflight = {}
  /\ \A o \in inflight :
       (sc >= 1 /\ cur.kind = "multipart" /\ o.op \in {"presign", "put"}) =>
         /\ Len(calls) = o.part - 1
         /\ \A i \in 1..Len(calls) :
              calls[i].op = "uploadPart" /\ calls[i].PartNumber = i
  /\ Op("complete", 0) \in inflight =>
       /\ Len(calls) = Len(eTags) + 1
       /\ \A i \in 1..Len(eTags) : calls[i].op = "uploadPart"

\* the upload of part 2 is in flight, after the upload of part 1 has returned
C8_Witness ==
  /\ pc = "mp_put"
  /\ inflight = {Op("put", 2)}
  /\ Len(calls) = 1

IsPrefix(a, b) == Len(a) <= Len(b) /\ SubSeq(b, 1, Len(a)) = a

\* C10: in every step each name of the store stays and its sequence only
\* grows at the end.
C10_SamplesOnlyAppended ==
  [][\A n \in DOMAIN measures :
       n \in DOMAIN measures' /\ IsPrefix(measures[n], measures'[n])]_vars

\* the setup of a multipart scenario has reset its two buckets while the
\* buckets of the multipart scenario before it hold their samples
C10_Witness ==
  /\ sc >= 2
  /\ pc = "setup"
  /\ cur.kind = "multipart"
  /\ scenarios[sc - 1].kind = "multipart"
  /\ measures[uploadMeasureOf(cur)] = <<>>
  /\ Len(measures[uploadMeasureOf(scenarios[sc - 1])]) >= 3
  /\ Len(measures[completeMeasureOf(scenarios[sc - 1])]) >= 3

\* C11 as claimed: two keys built with the same prefix at different readings
\* of the monotonic clock are different.
C11_KeysDiffer ==
  \A i, j \in 1..Len(made) :
    made[i].at # made[j].at => made[i].key # made[j].key

\* C12: the bucket exists before the first scenario starts and as long as
\* scenarios run; the delete-bucket call is issued at most once, after the
\* create-bucket call, only when the last scenario has returned and the last
\* listing came back empty from an empty bucket; a sweep that has ended has
\* issued exactly one create-bucket and one delete-bucket call.
C12_BucketLifecycle ==
  /\ sc >= 1 => (bucket # "none" /\ bucketOps[1] = "createBucket")
  /\ (sc >= 1 /\ pc \in SamplingPcs) => bucket = "created"
  /\ Len(bucketOps) <= 2
  /\ \A i \in 1..Len(bucketOps) : bucketOps[i] = "deleteBucket" => i = 2
  /\ Len(bucketOps) = 2 =>
        /\ sc = Len(scenarios)
        /\ cleanupFor = "run"
        /\ artifact.exists /\ JSONparse(artifact) = measures
        /\ Objects = {}
        /\ objects = {}
  /\ pc = "deleteBucket" => bucketOps = <<"createBucket", "deleteBucket">>
  /\ pc = "done" =>
        bucketOps = <<"createBucket", "deleteBucket">> /\ bucket = "deleted"

\* the sweep has ended after a last scenario that stored objects
C12_Witness ==
  /\ pc = "done"
  /\ ~failed
  /\ bucket = "deleted"
  /\ cur.kind = "multipart"
  /\ Len(measures[cur.name]) >= 3

\* the cells and the series values the Reporter made of bucket n
CellsOf(n) ==
  IF n = BasicKey THEN {report.out.basic}
  ELSE IF n[1] = "traditional-upload"
  THEN {report.out.traditionalCells[i] :
          i \in {j \in 1..Len(ReportSizes) : ReportSizes[j] = n[2]}}
  ELSE IF n[1] = "upload-multipart-total"
  THEN {report.out.multipartCells[i] :
          i \in {j \in 1..Len(ReportSizes) : ReportSizes[j] = n[2]}}
  ELSE {report.out.detailedCells[1]}

SeriesOf(n) ==
  IF n = BasicKey THEN {}
  ELSE IF n[1] = "traditional-upload"
  THEN {report.out.traditionalSeries[i] :
          i \in {j \in 1..Len(ReportSizes) : ReportSizes[j] = n[2]}}
  ELSE IF n[1] = "upload-multipart-total"
  THEN {report.out.multipartSeries[i] :
          i \in {j \in 1..Len(ReportSizes) : ReportSizes[j] = n[2]}}
  ELSE {report.out.detailedSeries[1]}

\* C13 as claimed: for a bucket of the store with no samples the Reporter
\* prints a blank cell and plots null, nothing throws, and no cell reads NaN
\* and no series holds NaN.
C13_EmptyIsBlank ==
  (report # NoProbe /\ report.done) =>
    \A n \in DOMAIN report.results :
      /\ \A c \in CellsOf(n) : c # Thrown /\ c # Str(<<"N", "a", "N">>)
      /\ \A v \in SeriesOf(n) : v # NaN
      /\ report.results[n] = <<>> =>
            /\ \A c \in CellsOf(n) : c = Str(<<>>)
            /\ \A v \in SeriesOf(n) : v = Null

\* C14: for a number n followed by one of k, m, g sizeToBytes returns
\* n * 1024, n * 1024^2, n * 1024^3; for a string with any other last
\* character (K, M, G, b, a digit) it throws and returns nothing.
C14_SizeOfSuffix ==
  (sized # NoProbe /\ sized.done) =>
    LET i == sized.in
        out == sized.out
        n == IF i.frac < 10 THEN [num |-> i.whole * 10 + i.frac, den |-> 10]
             ELSE [num |-> i.whole, den |-> 1]
    IN  IF i.suffix \in {<<"k">>, <<"m">>, <<"g">>}
        THEN /\ ~out.throws
             /\ ~out.nan
             /\ out.den = n.den
             /\ out.num = n.num * Power1024(i.suffix)
        ELSE out.throws

\* 1.5m has been converted
C14_Witness ==
  /\ sized # NoProbe
  /\ sized.done
  /\ sized.in.size = <<"1", ".", "5", "m">>
  /\ ~sized.out.throws
  /\ sized.out.num = 15 * KiB * KiB /\ sized.out.den = 10

\* C15 as claimed: while the cleanup pass that ends a scenario runs, the
\* summary has been printed once and the artifact already holds the whole
\* store, the scenario's samples included.
C15_PersistedBeforeCleanup ==
  (sc >= 1 /\ pc \in {"cleanup_list", "cleanup_delete"} /\ cleanupFor = "measure") =>
    /\ printed = 1
    /\ artifact.exists
    /\ JSONparse(artifact) = measures

InCleanup == pc \in {"cleanup_list", "cleanup_delete"}
CleanupReturned == pc \in {"writeFile", "deleteBucket"} /\ cleanupFor # "none"

\* C16: a delete batch is sent only with a non-empty key set and cleanup
\* returns only after an empty listing; on an endpoint that deletes the keys
\* it is given a cleanup pass that no call fails returns, with the bucket
\* empty and within MaxPasses batches, even though each listing is one page;
\* on an endpoint that deletes nothing a pass over a non-empty bucket never
\* returns.
C16_CleanupTerminates ==
  /\ [](Op("delete", 0) \in inflight => Objects # {})
  /\ [](CleanupReturned => Objects = {})
  /\ []((~sticky /\ pc = "cleanup_delete") => passes < MaxPasses)
  /\ (~sticky /\ InCleanup) ~> ((CleanupReturned /\ objects = {}) \/ failed)
  /\ []((sticky /\ atCleanupStart # {}) => (InCleanup \/ failed))

\* a pass has returned after more than one delete batch
C16_Witness ==
  /\ ~sticky
  /\ CleanupReturned
  /\ passes >= 2
  /\ Cardinality(atCleanupStart) > PageSize
  /\ objects = {}

\* the last call of the current iteration is a part upload whose response
\* carried no ETag header
LastPartUntagged(cs) ==
  /\ cs # <<>>
  /\ cs[Len(cs)].op = "uploadPart"
  /\ ~cs[Len(cs)].header

\* C17: a part upload answered without an ETag header does not fail the
\* iteration: its tag is recorded as the empty string and the program goes
\* on; eTags holds one entry per uploaded part, in part order; the finalize
\* call is issued with exactly that sequence; and an iteration that has
\* ended has recorded its three samples.
C17_MissingTagAbsorbed ==
  /\ [][(Len(calls') = Len(calls) + 1 /\ LastPartUntagged(calls')) =>
          /\ ~failed'
          /\ eTags' = Append(eTags, NoTag)
          /\ pc' \in {"mp_loop", "mp_parts_done"}]_vars
  /\ []((sc >= 1 /\ cur.kind = "multipart" /\ pc \in IterPcs \ {"iter", "mp_initiate"}) =>
          /\ Len(eTags) = Len(PartCalls)
          /\ \A i \in 1..Len(eTags) :
               /\ PartCalls[i].PartNumber = i
               /\ eTags[i] = IF PartCalls[i].header THEN TagOf(UploadId, i)
                              ELSE NoTag)
  /\ []((sc >= 1 /\ cur.kind = "multipart" /\ pc \in {"mp_complete", "iter_end"}) =>
          /\ calls[Len(calls)].op = "complete"
          /\ calls[Len(calls)].Parts = PartsOf(eTags)
          /\ Len(calls) = Len(eTags) + 1)
  /\ []((sc >= 1 /\ cur.kind = "multipart" /\ pc = "loop") =>
          /\ Len(measures[cur.name]) = Len(endAt)
          /\ Len(measures[uploadMeasureOf(cur)]) = Len(endAt)
          /\ Len(measures[completeMeasureOf(cur)]) = Len(endAt))

\* an iteration has ended and recorded its sample although the response to
\* its first part upload carried no ETag header
C17_Witness ==
  /\ sc >= 1
  /\ pc = "loop"
  /\ cur.kind = "multipart"
  /\ Len(calls) = 3
  /\ ~calls[1].header /\ calls[2].header
  /\ calls[3].op = "complete"
  /\ calls[3].Parts[1].ETag = NoTag
  /\ Len(measures[cur.name]) >= 1

\* C18: the total, part-upload and finalize buckets of a multipart scenario
\* hold equally many samples when the scenario is over and, while it is the
\* current one and has not failed, whenever no iteration is running; during
\* iteration n the total bucket holds n - 1 samples and the other two get
\* their n-th sample in that iteration, part-upload first, before the total
\* gets its n-th at the iteration's end.
C18_BucketsInLockstep ==
  \A k \in 1..sc :
    scenarios[k].kind = "multipart" =>
      LET t == Len(measures[scenarios[k].name])
          u == Len(measures[uploadMeasureOf(scenarios[k])])
          c == Len(measures[completeMeasureOf(scenarios[k])])
      IN  /\ k < sc => (t = u /\ t = c /\ t >= MinSamples)
          /\ (k = sc /\ ~failed /\ pc \notin IterPcs) => (t = u /\ t = c)
          /\ (k = sc /\ pc \in IterPcs) =>
                /\ t = Len(endAt)
                /\ u = IF pc \in {"mp_complete", "iter_end"} THEN t + 1 ELSE t
                /\ c = IF pc = "iter_end" THEN t + 1 ELSE t
          /\ (k = sc /\ failed) => (t <= c /\ c <= u /\ u <= t + 1)

\* the second iteration of a multipart scenario that follows a multipart
\* scenario is about to record its total
C18_Witness ==
  /\ sc >= 2
  /\ scenarios[sc - 1].kind = "multipart"
  /\ cur.kind = "multipart"
  /\ pc = "iter_end"
  /\ Len(measures[cur.name]) = 1
  /\ Len(measures[uploadMeasureOf(cur)]) = 2
  /\ Len(measures[completeMeasureOf(cur)]) = 2

\* C19: every sample of the store is a natural number of milliseconds, and
\* the i-th total sample of a multipart scenario is at least the sum of its
\* i-th part-upload sample and its i-th finalize sample.
C19_TotalEnclosesParts ==
  /\ \A n \in DOMAIN measures :
       \A i \in 1..Len(measures[n]) : measures[n][i] \in Nat
  /\ \A k \in 1..sc :
       scenarios[k].kind = "multipart" =>
         LET total == measures[scenarios[k].name]
             upload == measures[uploadMeasureOf(scenarios[k])]
             complete == measures[completeMeasureOf(scenarios[k])]
         IN  \A i \in 1..Len(total) :
               /\ i <= Len(upload) /\ i <= Len(complete)
               /\ total[i] >= upload[i] + complete[i]

\* an iteration has recorded a total that exceeds its part-upload and
\* finalize samples, both positive, by the time of the initiation
C19_Witness ==
  /\ sc >= 1
  /\ cur.kind = "multipart"
  /\ pc = "loop"
  /\ Len(measures[cur.name]) >= 1
  /\ measures[uploadMeasureOf(cur)][1] > 0
  /\ measures[completeMeasureOf(cur)][1] > 0
  /\ measures[cur.name][1] =
       measures[uploadMeasureOf(cur)][1] + measures[completeMeasureOf(cur)][1]
         + lat["initiate"]
  /\ lat["initiate"] > 0

====
